---- MODULE Spec2Model ----
(***************************************************************************)
(* Model of the stock-gate back end (src/unnamed/part_001): the invoice    *)
(* reconciliation transaction (POST /api/add-stock), the supplier mapping  *)
(* store (POST /api/save-mapping) and the hybrid matcher                   *)
(* (POST /api/match-products), over a PostgreSQL database running at its   *)
(* default READ COMMITTED isolation level.                                 *)
(*                                                                         *)
(* Text is a sequence of one-character strings.                            *)
(***************************************************************************)
EXTENDS Integers, Sequences, FiniteSets, TLC

VARIABLES
  products,   \* committed rows of table products
  invoices,   \* committed rows of table invoices
  prodSeq,    \* products.id SERIAL sequence (never rolled back)
  invSeq,     \* invoices.id SERIAL sequence (never rolled back)
  txn,        \* per add-stock client: the open transaction's uncommitted writes
  sreq,       \* per add-stock request: the handler's position and locals
  seed,       \* history: the catalog the server started with
  mappings,   \* rows of table supplier_mappings
  mapSeq,     \* supplier_mappings.id SERIAL sequence
  saveLog,    \* history: the save-mapping requests that succeeded, in order
  saveResp,   \* HTTP status of the latest save-mapping response (0: none yet)
  mreq,       \* the match-products request: the handler's position and locals
  call        \* a call of a text helper on its own: arguments and results

stockVars == <<products, invoices, prodSeq, invSeq, txn, sreq, seed>>
matchVars == <<mappings, mapSeq, saveLog, saveResp, mreq, call>>
vars == <<products, invoices, prodSeq, invSeq, txn, sreq, seed,
          mappings, mapSeq, saveLog, saveResp, mreq, call>>

----------------------------------------------------------------------------
(* Bounds *)

\* number of POST /api/add-stock requests, which may overlap
MaxStockReqs == 2
\* largest number of items in one add-stock payload
MaxStockItems == 2
\* longest text handed to a helper called on its own
MaxTextLen == 3
\* largest number of items in one match-products payload
MaxMatchItems == 2
\* number of POST /api/save-mapping requests that succeed
MaxSaves == 2

StockReqs == 1..MaxStockReqs

----------------------------------------------------------------------------
(* Text used as product descriptions and invoice lines *)

TxtA == <<"a">>
TxtB == <<"b">>

StockDescs == {TxtA, TxtB}

\* a numeric field of a request body: a number, or a value that parseInt and
\* parseFloat turn into NaN
Num(n) == [isnum |-> TRUE, num |-> n]
NotNum == [isnum |-> FALSE, num |-> 0]

\* req.body.items entries of add-stock
StockItem(d, q) ==
  [description |-> d, quantity |-> q, unit_price |-> Num(2), unit |-> "pc",
   reference |-> <<>>]

\* the second line names the seeded product with another reference, price
\* and unit; the third carries a negative quantity
StockItems ==
  {StockItem(TxtA, Num(1)),
   [StockItem(TxtA, Num(2)) EXCEPT !.unit_price = Num(3), !.unit = "kg",
                                   !.reference = <<"1">>],
   StockItem(TxtB, Num(0 - 1)),
   StockItem(TxtB, NotNum)}

\* req.body.invoiceInfo: absent, or present; "" stands for a field that is
\* missing or empty
NoInfo == [present |-> FALSE, invoice_number |-> "", supplier_name |-> "",
           buyer_name |-> "", total_ttc |-> NotNum, invoice_date |-> ""]
StockInfos ==
  {NoInfo,
   [present |-> TRUE, invoice_number |-> "INV1", supplier_name |-> "ACME",
    buyer_name |-> "", total_ttc |-> Num(7), invoice_date |-> "2024-01-31"],
   \* a total that does not parse, and the supplier under buyer_name
   [present |-> TRUE, invoice_number |-> "INV2", supplier_name |-> "",
    buyer_name |-> "SHOP", total_ttc |-> NotNum, invoice_date |-> ""]}

SeqsUpTo(S, n) == UNION {[1..k -> S] : k \in 0..n}

StockBodies == [items : SeqsUpTo(StockItems, MaxStockItems), info : StockInfos]

----------------------------------------------------------------------------
(* Helpers: normalizeText, extractNumbers, levenshtein, similarityScore *)

LowerCase == [c \in {"A", "B"} |-> IF c = "A" THEN "a" ELSE "b"]
AlphaNum == {"a", "b", "1", "2"}      \* the model's characters of [a-z0-9]
WhiteSpace == {" ", "\t"}             \* the model's characters of \s
Digits == {"1", "2"}

\* String.prototype.toLowerCase, one character
ToLower(c) == IF c \in DOMAIN LowerCase THEN LowerCase[c] ELSE c

\* .replace(/[^a-z0-9\s]/g, " "), one character
Punct(c) == IF c \in AlphaNum \cup WhiteSpace THEN c ELSE " "

RECURSIVE Collapse(_)
\* .replace(/\s+/g, " ")
Collapse(t) ==
  IF t = <<>> THEN <<>>
  ELSE IF Head(t) \in WhiteSpace
       THEN IF Len(t) > 1 /\ t[2] \in WhiteSpace
            THEN Collapse(Tail(t))
            ELSE <<" ">> \o Collapse(Tail(t))
       ELSE <<Head(t)>> \o Collapse(Tail(t))

RECURSIVE TrimLeft(_)
TrimLeft(t) ==
  IF t # <<>> /\ Head(t) \in WhiteSpace THEN TrimLeft(Tail(t)) ELSE t

RECURSIVE TrimRight(_)
TrimRight(t) ==
  IF t # <<>> /\ t[Len(t)] \in WhiteSpace
  THEN TrimRight(SubSeq(t, 1, Len(t) - 1)) ELSE t

\* String.prototype.trim
Trim(t) == TrimRight(TrimLeft(t))

\* a plausible slip: the final .trim() is left out
normalizeTextNoTrim(text) ==
  Collapse([i \in 1..Len(text) |-> Punct(ToLower(text[i]))])

normalizeText(text) ==
  Trim(Collapse([i \in 1..Len(text) |-> Punct(ToLower(text[i]))]))

RECURSIVE Split(_, _)
\* t.split(" ") as the sequence of pieces; cur is the piece being read
Split(t, cur) ==
  IF t = <<>> THEN <<cur>>
  ELSE IF Head(t) = " " THEN <<cur>> \o Split(Tail(t), <<>>)
       ELSE Split(Tail(t), Append(cur, Head(t)))

Tokens(t) == LET p == Split(t, <<>>) IN {p[i] : i \in DOMAIN p}

RECURSIVE DigitRun(_)
\* length of the longest prefix of t made of digits
DigitRun(t) ==
  IF t # <<>> /\ Head(t) \in Digits THEN 1 + DigitRun(Tail(t)) ELSE 0

RECURSIVE extractNumbers(_)
\* text.match(/\d+(?:\.\d+)?/g), as the set of the matched substrings
extractNumbers(text) ==
  IF text = <<>> THEN {}
  ELSE LET n == DigitRun(text) IN
       IF n = 0 THEN extractNumbers(Tail(text))
       ELSE LET rest == SubSeq(text, n + 1, Len(text))
                f == IF rest # <<>> /\ Head(rest) = "." THEN DigitRun(Tail(rest)) ELSE 0
                m == IF f > 0 THEN n + 1 + f ELSE n
            IN {SubSeq(text, 1, m)} \cup extractNumbers(SubSeq(text, m + 1, Len(text)))

Min2(x, y) == IF x <= y THEN x ELSE y
Max2(x, y) == IF x >= y THEN x ELSE y

RECURSIVE LevRow(_, _, _, _)
\* row i of the dp table from row i-1 (prev), filled left to right; row holds
\* dp[i][0..j-1] and rows are indexed from 1
LevRow(prev, ai, b, row) ==
  LET j == Len(row) IN
  IF j > Len(b) THEN row
  ELSE LET cost == IF ai = b[j] THEN 0 ELSE 1
           v == Min2(Min2(prev[j + 1] + 1, row[j] + 1), prev[j] + cost)
       IN LevRow(prev, ai, b, Append(row, v))

RECURSIVE LevRows(_, _, _, _)
LevRows(a, b, i, prev) ==
  IF i > Len(a) THEN prev
  ELSE LevRows(a, b, i + 1, LevRow(prev, a[i], b, <<i>>))

levenshtein(a, b) ==
  IF Len(a) = 0 THEN Len(b)
  ELSE IF Len(b) = 0 THEN Len(a)
  ELSE LevRows(a, b, 1, [j \in 1..(Len(b) + 1) |-> j - 1])[Len(b) + 1]

\* Math.round of the fraction num/den (den > 0): the nearest integer, halves up
RoundDiv(num, den) == (2 * num + den) \div (2 * den)

\* a plausible slip: the rounded value is returned without the clamp
similarityScoreNoClamp(query, candidate) ==
  LET q == normalizeText(query)
      c == normalizeText(candidate)
  IN IF q = <<>> \/ c = <<>> THEN 0
     ELSE LET distance == levenshtein(q, c)
              maxLen == Max2(Len(q), Len(c))
              qTokens == Tokens(q)
              cTokens == Tokens(c)
              overlap == Cardinality(qTokens \cap cTokens)
              union == Cardinality(qTokens \cup cTokens)
              hasNumberMatch == extractNumbers(query) \cap extractNumbers(candidate) # {}
              num == 60 * (maxLen - distance) * union + 40 * overlap * maxLen
                       + (IF hasNumberMatch THEN 10 * maxLen * union ELSE 0)
          IN RoundDiv(num, maxLen * union)

\* 100 * (0.6 * levenshteinScore + 0.4 * tokenScore + bonus), rounded and
\* clamped, computed exactly as a fraction over maxLen * union
similarityScore(query, candidate) ==
  LET q == normalizeText(query)
      c == normalizeText(candidate)
  IN IF q = <<>> \/ c = <<>> THEN 0
     ELSE LET distance == levenshtein(q, c)
              maxLen == Max2(Len(q), Len(c))
              qTokens == Tokens(q)
              cTokens == Tokens(c)
              overlap == Cardinality(qTokens \cap cTokens)
              union == Cardinality(qTokens \cup cTokens)
              hasNumberMatch == extractNumbers(query) \cap extractNumbers(candidate) # {}
              num == 60 * (maxLen - distance) * union + 40 * overlap * maxLen
                       + (IF hasNumberMatch THEN 10 * maxLen * union ELSE 0)
          IN Max2(0, Min2(100, RoundDiv(num, maxLen * union)))

----------------------------------------------------------------------------
(* Database *)

ProductRow(id, item, qty, price) ==
  [id |-> id, reference |-> item.reference, description |-> item.description,
   quantity |-> qty, unit_price |-> price, unit |-> item.unit,
   category |-> "General"]

\* catalogs the database may hold when the server starts
SeedRow(id, d, q) ==
  [id |-> id, reference |-> <<>>, description |-> d, quantity |-> q,
   unit_price |-> 2, unit |-> "pc", category |-> "General"]

InitCatalogs == { {}, {SeedRow(1, TxtA, 10)} }

CatalogRow(id, ref, d) ==
  [id |-> id, reference |-> ref, description |-> d, quantity |-> 1,
   unit_price |-> 2, unit |-> "pc", category |-> "General"]

\* a catalog larger than the candidate list
CatalogSix ==
  {CatalogRow(1, <<>>, <<"a">>), CatalogRow(2, <<>>, <<"a", " ", "b">>),
   CatalogRow(3, <<"1">>, <<"a">>), CatalogRow(4, <<>>, <<"b">>),
   CatalogRow(5, <<>>, <<"b", " ", "a">>), CatalogRow(6, <<>>, <<"2">>)}

MatchCatalogs == InitCatalogs \cup {CatalogSix}

NoTxn == [active |-> FALSE, upd |-> <<>>, ins |-> {}, inv |-> {}]

\* parseInt(item.quantity) || 0
ParseQty(q) == IF q.isnum THEN q.num ELSE 0
\* parseFloat(item.unit_price) || 0
ParsePrice(x) == IF x.isnum THEN x.num ELSE 0
\* a plausible slip: no "|| 0", so NaN (shown as -1) reaches the column
ParseTotalNoDefault(x) == IF x.isnum THEN x.num ELSE 0 - 1

\* parseFloat(invoiceInfo.total_ttc) || 0
ParseTotal(x) == IF x.isnum THEN x.num ELSE 0

\* x || y on strings; "" also stands for the null the chain ends in
OrElse(x, y) == IF x # "" THEN x ELSE y

\* a plausible slip: $1 and $2 of the INSERT are swapped
InvoiceRowSwapped(id, info) ==
  [id |-> id, invoice_number |-> OrElse(info.supplier_name, info.buyer_name),
   supplier_name |-> info.invoice_number,
   total_amount |-> ParseTotal(info.total_ttc),
   invoice_date |-> info.invoice_date]

\* the row INSERT INTO invoices (invoice_number, supplier_name, total_amount,
\* invoice_date) adds
InvoiceRow(id, info) ==
  [id |-> id, invoice_number |-> info.invoice_number,
   supplier_name |-> OrElse(info.supplier_name, info.buyer_name),
   total_amount |-> ParseTotal(info.total_ttc),
   invoice_date |-> info.invoice_date]

\* a plausible slip: the UPDATE without its WHERE id = $2
PatchedNoWhere(r, row) ==
  IF DOMAIN txn[r].upd # {}
  THEN [row EXCEPT !.quantity =
          txn[r].upd[CHOOSE id \in DOMAIN txn[r].upd : TRUE]]
  ELSE row
\* rows of products as client r's statements see them: committed rows, with
\* r's own uncommitted updates and inserts
Patched(r, row) ==
  IF row.id \in DOMAIN txn[r].upd
  THEN [row EXCEPT !.quantity = txn[r].upd[row.id]]
  ELSE row

ViewProducts(r) == {Patched(r, row) : row \in products \cup txn[r].ins}

\* a row updated by another open transaction is locked: UPDATE waits
LockedByOther(r, id) ==
  \E o \in StockReqs \ {r} : txn[o].active /\ id \in DOMAIN txn[o].upd

----------------------------------------------------------------------------
(* POST /api/add-stock *)

\* pc, items, info, idx, check: the handler's position and locals; resp: the
\* HTTP status sent (0: none). History, read by the properties only:
\*   failedAt  the statement of the try block that rejected ("": none)
\*   before    the committed tables when the request began
\*   dirty     another request committed after this one began
\*   pred      the requests that had ended when this one began
\*   log       the statements the database has answered, in order
\*   ended     the COMMIT and ROLLBACK statements issued, in order
\*   sent      the number of responses sent
\*   released  the number of times the client was released
NoReq == [pc |-> "idle", items |-> <<>>, info |-> NoInfo, idx |-> 1,
          check |-> <<>>, resp |-> 0, failedAt |-> "",
          before |-> [products |-> {}, invoices |-> {}], dirty |-> FALSE,
          pred |-> {}, log |-> <<>>, ended |-> <<>>, sent |-> 0, released |-> 0]

\* an entry of log: the statement, and the item it was issued for (the
\* invoice insert: item 0, no description)
Logged(stmt, idx, description) ==
  [stmt |-> stmt, item |-> idx, description |-> description]

Ended(r) == sreq[r].pc \in {"done_ok", "done_err"}
Active(r) == sreq[r].pc # "idle" /\ ~Ended(r)

\* position after the invoice insert / after an item: next SELECT or COMMIT
LoopPc(items, idx) == IF idx <= Len(items) THEN "select" ELSE "commit"

\* a plausible slip: no transaction is opened, every statement autocommits
TxnBeginMissing(t) == t

\* BEGIN
TxnBegin(t) == [t EXCEPT !.active = TRUE]

\* a plausible slip: the item loop runs without the invoice insert before it
FirstPcItems(items, info) == LoopPc(items, 1)

\* position after BEGIN: if (invoiceInfo) the invoice insert, else the loop
FirstPc(items, info) == IF info.present THEN "invoice" ELSE LoopPc(items, 1)

\* const client = await pool.connect(); await client.query('BEGIN'), both
\* taken to succeed
StockBegin(r) ==
  /\ sreq[r].pc = "idle"
  /\ \E body \in StockBodies :
       sreq' = [sreq EXCEPT ![r] =
                  [NoReq EXCEPT !.items = body.items, !.info = body.info,
                     !.pc = FirstPc(body.items, body.info),
                     !.before = [products |-> products, invoices |-> invoices],
                     !.pred = {o \in StockReqs : Ended(o)}]]
  /\ txn' = [txn EXCEPT ![r] = TxnBegin(NoTxn)]
  /\ UNCHANGED <<products, invoices, prodSeq, invSeq, seed, matchVars>>

\* INSERT INTO invoices (...)
StockInvoice(r) ==
  /\ sreq[r].pc = "invoice"
  /\ LET info == sreq[r].info
         row == InvoiceRow(invSeq + 1, info)
     IN /\ invSeq' = invSeq + 1
        /\ IF txn[r].active
           THEN /\ txn' = [txn EXCEPT ![r].inv = @ \cup {row}]
                /\ UNCHANGED invoices
           ELSE /\ invoices' = invoices \cup {row}
                /\ UNCHANGED txn
  /\ sreq' = [sreq EXCEPT ![r].pc = LoopPc(sreq[r].items, 1),
                          ![r].log = Append(@, Logged("invoice", 0, <<>>))]
  /\ UNCHANGED <<products, prodSeq, seed, matchVars>>

\* SELECT * FROM products WHERE description = $1
StockSelect(r) ==
  /\ sreq[r].pc = "select"
  /\ LET item == sreq[r].items[sreq[r].idx]
         rows == {row \in ViewProducts(r) : row.description = item.description}
     IN IF rows = {}
        THEN sreq' = [sreq EXCEPT ![r].check = <<>>, ![r].pc = "insert",
                        ![r].log = Append(@, Logged("select", sreq[r].idx,
                                                    item.description))]
        ELSE \E first \in rows :
               sreq' = [sreq EXCEPT ![r].check = <<first>>, ![r].pc = "update",
                          ![r].log = Append(@, Logged("select", sreq[r].idx,
                                                      item.description))]
  /\ UNCHANGED <<products, invoices, prodSeq, invSeq, txn, seed, matchVars>>

\* a plausible slip: the UPDATE stores the item's quantity
NewQuantityOverwrite(currentQty, qty) == qty

NewQuantity(currentQty, qty) == currentQty + qty

\* UPDATE products SET quantity = $1 WHERE id = $2
StockUpdate(r) ==
  /\ sreq[r].pc = "update"
  /\ LET item == sreq[r].items[sreq[r].idx]
         row == sreq[r].check[1]
         newq == NewQuantity(row.quantity, ParseQty(item.quantity))
     IN /\ ~LockedByOther(r, row.id)
        /\ IF txn[r].active
           THEN /\ txn' = [txn EXCEPT ![r].upd =
                             [i \in DOMAIN @ \cup {row.id} |->
                                IF i = row.id THEN newq ELSE @[i]]]
                /\ UNCHANGED products
           ELSE /\ products' = {IF p.id = row.id THEN [p EXCEPT !.quantity = newq]
                                ELSE p : p \in products}
                /\ UNCHANGED txn
  /\ sreq' = [sreq EXCEPT ![r].idx = @ + 1,
                          ![r].pc = LoopPc(sreq[r].items, sreq[r].idx + 1),
                          ![r].log =
                            Append(@, Logged("update", sreq[r].idx,
                                     sreq[r].items[sreq[r].idx].description))]
  /\ UNCHANGED <<invoices, prodSeq, invSeq, seed, matchVars>>

\* INSERT INTO products (...) VALUES (..., 'General')
StockInsert(r) ==
  /\ sreq[r].pc = "insert"
  /\ LET item == sreq[r].items[sreq[r].idx]
         row == ProductRow(prodSeq + 1, item, ParseQty(item.quantity),
                           ParsePrice(item.unit_price))
     IN /\ prodSeq' = prodSeq + 1
        /\ IF txn[r].active
           THEN /\ txn' = [txn EXCEPT ![r].ins = @ \cup {row}]
                /\ UNCHANGED products
           ELSE /\ products' = products \cup {row}
                /\ UNCHANGED txn
  /\ sreq' = [sreq EXCEPT ![r].idx = @ + 1,
                          ![r].pc = LoopPc(sreq[r].items, sreq[r].idx + 1),
                          ![r].log =
                            Append(@, Logged("insert", sreq[r].idx,
                                     sreq[r].items[sreq[r].idx].description))]
  /\ UNCHANGED <<invoices, invSeq, seed, matchVars>>

\* a plausible slip: client.release() at the end of the try block only
FinallyOnSuccess(req) ==
  IF req.pc = "done_ok" THEN [req EXCEPT !.released = @ + 1] ELSE req
\* finally { client.release(); }
Finally(req) == [req EXCEPT !.released = @ + 1]

\* COMMIT, then res.json({ success: true }), then client.release()
StockCommit(r) ==
  /\ sreq[r].pc = "commit"
  /\ products' = ViewProducts(r)
  /\ invoices' = invoices \cup txn[r].inv
  /\ txn' = [txn EXCEPT ![r] = NoTxn]
  /\ sreq' = [o \in StockReqs |->
                IF o = r
                THEN Finally([sreq[o] EXCEPT !.pc = "done_ok", !.resp = 200,
                                !.check = <<>>, !.ended = Append(@, "COMMIT"),
                                !.sent = @ + 1])
                ELSE [sreq[o] EXCEPT !.dirty = @ \/ sreq[o].pc # "idle"]]
  /\ UNCHANGED <<prodSeq, invSeq, seed, matchVars>>

\* a statement of the try block is rejected by the server (a constraint or
\* type error, a deadlock victim, a failed COMMIT): control moves to the
\* catch block. The connection stays up, so the ROLLBACK that follows is
\* accepted.
StockFail(r) ==
  /\ sreq[r].pc \in {"invoice", "select", "update", "insert", "commit"}
  /\ sreq' = [sreq EXCEPT ![r].pc = "rollback", ![r].failedAt = sreq[r].pc,
                          ![r].ended = IF sreq[r].pc = "commit"
                                       THEN Append(@, "COMMIT") ELSE @]
  /\ UNCHANGED <<products, invoices, prodSeq, invSeq, txn, seed, matchVars>>

\* catch: ROLLBACK, then res.status(500), then client.release()
StockRollback(r) ==
  /\ sreq[r].pc = "rollback"
  /\ txn' = [txn EXCEPT ![r] = NoTxn]
  /\ sreq' = [sreq EXCEPT ![r] =
                Finally([@ EXCEPT !.pc = "done_err", !.resp = 500, !.check = <<>>,
                                  !.ended = Append(@, "ROLLBACK"), !.sent = @ + 1])]
  /\ UNCHANGED <<products, invoices, prodSeq, invSeq, seed, matchVars>>

----------------------------------------------------------------------------
(* POST /api/save-mapping *)

\* req.body.supplier_name: <<>> stands for a missing or empty one
SaveLabels == {<<>>, <<"a", " ", "B">>, <<"#">>}
\* req.body.product_id: 0 stands for a missing one, 9 is no product's id
SavePids == {0, 1, 2, 9}

\* a plausible slip: a plain INSERT into a table without the UNIQUE constraint
MappingInsert(table, row) == table \cup {row}

\* INSERT INTO supplier_mappings ... ON CONFLICT (supplier_name_normalized)
\* DO UPDATE SET product_id = EXCLUDED.product_id, supplier_id = EXCLUDED.supplier_id
MappingUpsert(table, row) ==
  IF \E m \in table : m.supplier_name_normalized = row.supplier_name_normalized
  THEN {IF m.supplier_name_normalized = row.supplier_name_normalized
        THEN [m EXCEPT !.product_id = row.product_id, !.supplier_id = row.supplier_id]
        ELSE m : m \in table}
  ELSE table \cup {row}

\* a plausible slip: only the label is validated
MissingFieldsLabelOnly(name, pid) == name = <<>>

\* !supplier_name || !product_id
MissingFields(name, pid) == name = <<>> \/ pid = 0

\* the handler on the body {supplier_name: name, product_id: pid}
SaveRequest(name, pid) ==
  /\ Len(saveLog) < MaxSaves
  /\ IF MissingFields(name, pid)
     THEN \* 400: supplier_name and product_id are required
          /\ saveResp' = 400
          /\ UNCHANGED <<mappings, mapSeq, saveLog>>
     ELSE LET row == [id |-> mapSeq + 1, supplier_name |-> name,
                      supplier_name_normalized |-> normalizeText(name),
                      product_id |-> pid, supplier_id |-> ""]
          IN \/ \* the statement succeeds; product_id REFERENCES products(id)
                /\ pid \in {p.id : p \in products}
                /\ mappings' = MappingUpsert(mappings, row)
                /\ mapSeq' = mapSeq + 1
                /\ saveLog' = Append(saveLog, [name |-> name, pid |-> pid])
                /\ saveResp' = 200
             \/ \* the statement is rejected: 500
                /\ saveResp' = 500
                /\ UNCHANGED <<mappings, mapSeq, saveLog>>
  /\ UNCHANGED <<stockVars, mreq, call>>

SaveMapping == \E name \in SaveLabels, pid \in SavePids : SaveRequest(name, pid)

----------------------------------------------------------------------------
(* POST /api/match-products *)

\* scored.slice(0, 5) and scored.slice(0, 3)
TopCandidates == 5
TopSuggestions == 3

Take(seq, n) == SubSeq(seq, 1, Min2(n, Len(seq)))

\* `${product.reference || ""} ${product.description || ""}`.trim()
Candidate(product) == Trim(product.reference \o <<" ">> \o product.description)

ScoredRow(product, description) ==
  [id |-> product.id, reference |-> product.reference,
   description |-> product.description, category |-> product.category,
   score |-> similarityScore(description, Candidate(product))]

\* a plausible slip: an unstable order, the later of two equal scores first
RECURSIVE KeepBeforeStrict(_, _)
KeepBeforeStrict(sorted, e) ==
  IF sorted # <<>> /\ Head(sorted).score > e.score
  THEN 1 + KeepBeforeStrict(Tail(sorted), e) ELSE 0

\* number of leading entries of a score-descending list that e does not precede
RECURSIVE KeepBefore(_, _)
KeepBefore(sorted, e) ==
  IF sorted # <<>> /\ Head(sorted).score >= e.score
  THEN 1 + KeepBefore(Tail(sorted), e) ELSE 0

RECURSIVE SortByScore(_)
\* .sort((a, b) => b.score - a.score): stable, descending
SortByScore(rows) ==
  IF rows = <<>> THEN <<>>
  ELSE LET front == SortByScore(SubSeq(rows, 1, Len(rows) - 1))
           e == rows[Len(rows)]
           k == KeepBefore(front, e)
       IN SubSeq(front, 1, k) \o <<e>> \o SubSeq(front, k + 1, Len(front))

\* products.map(...).sort(...).slice(0, 5)
Rank(snapshot, description) ==
  Take(SortByScore([i \in 1..Len(snapshot) |-> ScoredRow(snapshot[i], description)]),
       TopCandidates)

\* the value findBestMatchWithGemini hands back: null, or the parsed object
NullAi == [isNull |-> TRUE, thrown |-> FALSE, best_match_id |-> 0,
           confidence |-> 0, reasoning |-> ""]
AiObject(id, confidence) ==
  [isNull |-> FALSE, thrown |-> FALSE, best_match_id |-> id,
   confidence |-> confidence, reasoning |-> "r"]
\* an exception that leaves findBestMatchWithGemini
Thrown == [NullAi EXCEPT !.thrown = TRUE]

\* what the oracle call does: generateContent rejects, or answers with a text
\* that may be wrapped in a code fence, may parse as JSON, and then parses to
\* value
NoRaw == [kind |-> "none", fenced |-> FALSE, parses |-> FALSE, value |-> NullAi]
RawReject == [NoRaw EXCEPT !.kind = "reject"]
RawText(fenced, parses, value) ==
  [kind |-> "text", fenced |-> fenced, parses |-> parses, value |-> value]

OracleConfidences == {0, 80, 150}
\* ids that are no product's id
StrayIds == {9}

\* the answers the model lets the oracle give for a candidate list taken from
\* the catalog snapshot
OracleRaws(snapshot, scored) ==
  LET ids == {0, scored[1].id, scored[Len(scored)].id} \cup StrayIds
               \cup {snapshot[i].id : i \in {Len(snapshot)}}
  IN {RawReject, RawText(FALSE, FALSE, NullAi), RawText(FALSE, TRUE, NullAi)}
     \cup {RawText(TRUE, TRUE, AiObject(scored[1].id, c)) : c \in OracleConfidences}
     \cup {RawText(FALSE, TRUE, AiObject(id, 80)) : id \in ids}

\* a plausible slip: no try/catch around the oracle call
findBestMatchNoCatch(raw) ==
  IF raw.kind = "reject" \/ ~raw.parses THEN Thrown ELSE raw.value

\* findBestMatchWithGemini: the try block strips the code fence and parses;
\* the catch block returns null
findBestMatchWithGemini(raw) ==
  IF raw.kind = "reject" \/ ~raw.parses THEN NullAi ELSE raw.value

\* null as a product (id 0), and as an entry of scored
NoProduct == [id |-> 0, reference |-> <<>>, description |-> <<>>, category |-> ""]
NoScored == [id |-> 0, reference |-> <<>>, description |-> <<>>, category |-> "",
             score |-> 0]

AsMatch(row) ==
  [id |-> row.id, reference |-> row.reference, description |-> row.description,
   category |-> row.category]

\* the object pushed on a mapping hit
MappingResult(row) ==
  [source |-> "mapping", match |-> AsMatch(row), score |-> 100,
   ai_reasoning |-> "Pre-defined manual mapping", suggestions |-> <<>>]

\* a plausible slip: the oracle's id is trusted when no candidate carries it
FinalMatchTrusting(scored, ai) ==
  LET hits == IF ~ai.isNull /\ ai.best_match_id # 0
              THEN {i \in DOMAIN scored : scored[i].id = ai.best_match_id}
              ELSE {}
  IN IF hits # {} THEN scored[CHOOSE i \in hits : \A k \in hits : i <= k]
     ELSE IF ~ai.isNull /\ ai.best_match_id # 0
     THEN [NoScored EXCEPT !.id = ai.best_match_id]
     ELSE IF scored # <<>> THEN scored[1]
     ELSE NoScored
\* scored.find(p => p.id === aiResponse.best_match_id), then the fallback
\* finalMatch = scored[0] || null
FinalMatch(scored, ai) ==
  LET hits == IF ~ai.isNull /\ ai.best_match_id # 0
              THEN {i \in DOMAIN scored : scored[i].id = ai.best_match_id}
              ELSE {}
  IN IF hits # {} THEN scored[CHOOSE i \in hits : \A k \in hits : i <= k]
     ELSE IF scored # <<>> THEN scored[1]
     ELSE NoScored

\* a plausible slip: one suggestion too few
AssembleResultShort(scored, ai) ==
  LET finalMatch == FinalMatch(scored, ai)
      aiId == IF ai.isNull THEN 0 ELSE ai.best_match_id
      aiConfidence == IF ai.isNull THEN 0 ELSE ai.confidence
  IN [source |-> IF aiId # 0 THEN "ai-gemini" ELSE "suggestion",
      match |-> IF finalMatch.id # 0 THEN AsMatch(finalMatch) ELSE NoProduct,
      score |-> IF aiConfidence # 0 THEN aiConfidence ELSE finalMatch.score,
      ai_reasoning |-> IF ~ai.isNull /\ ai.reasoning # "" THEN ai.reasoning
                       ELSE "Mathematical similarity",
      suggestions |-> Take(scored, TopSuggestions - 1)]

\* the object pushed after ranking and the optional oracle call
AssembleResult(scored, ai) ==
  LET finalMatch == FinalMatch(scored, ai)
      aiId == IF ai.isNull THEN 0 ELSE ai.best_match_id
      aiConfidence == IF ai.isNull THEN 0 ELSE ai.confidence
  IN [source |-> IF aiId # 0 THEN "ai-gemini" ELSE "suggestion",
      match |-> IF finalMatch.id # 0 THEN AsMatch(finalMatch) ELSE NoProduct,
      score |-> IF aiConfidence # 0 THEN aiConfidence ELSE finalMatch.score,
      ai_reasoning |-> IF ~ai.isNull /\ ai.reasoning # "" THEN ai.reasoning
                       ELSE "Mathematical similarity",
      suggestions |-> Take(scored, TopSuggestions)]

\* a plausible slip: the result is put in front (unshift)
PushFront(matches, result) == <<result>> \o matches

\* matches.push(result)
Push(matches, result) == Append(matches, result)

\* item descriptions of match-products
MatchDescs == {<<"A", " ", "b">>, <<"a", " ", "2">>, <<"#">>}
MatchBodies == SeqsUpTo(MatchDescs, MaxMatchItems)

\* pc, items, idx, snapshot, scored, matches: the handler's position and
\* locals; resp: the HTTP status sent (0: none). History, read by the
\* properties only: trace, one entry per item handled:
\*   saves       number of successful save-mapping requests before the lookup
\*   candidates  the ranked candidates (<<>> on a mapping hit)
\*   called      the oracle was called for the item
\*   raw         what the oracle call did
\*   stale       products were added to the table after the catalog was read
NoMatchReq == [pc |-> "idle", items |-> <<>>, idx |-> 1, snapshot |-> <<>>,
               scored |-> <<>>, matches |-> <<>>, resp |-> 0, trace |-> <<>>]

\* rows of a SELECT without ORDER BY come in no guaranteed order: the model
\* returns them by ascending or by descending id
RECURSIVE ByIdAsc(_)
ByIdAsc(rows) ==
  IF rows = {} THEN <<>>
  ELSE LET first == CHOOSE p \in rows : \A q \in rows : p.id <= q.id
       IN <<first>> \o ByIdAsc(rows \ {first})

Reverse(seq) == [i \in 1..Len(seq) |-> seq[Len(seq) + 1 - i]]

SelectOrders(rows) == {ByIdAsc(rows), Reverse(ByIdAsc(rows))}

\* the request arrives; SELECT id, reference, description, category FROM
\* products is issued
MatchBegin ==
  /\ mreq.pc = "idle"
  /\ \E items \in MatchBodies :
       mreq' = [NoMatchReq EXCEPT !.pc = "products", !.items = items]
  /\ UNCHANGED <<stockVars, mappings, mapSeq, saveLog, saveResp, call>>

\* after an item: the next item's mapping lookup, or res.json({ matches })
AfterItem(m) ==
  IF m.idx + 1 <= Len(m.items)
  THEN [m EXCEPT !.idx = @ + 1, !.pc = "item", !.scored = <<>>]
  ELSE [m EXCEPT !.idx = @ + 1, !.pc = "done", !.scored = <<>>, !.resp = 200]

\* the catalog is read
MatchProducts ==
  /\ mreq.pc = "products"
  /\ \E snapshot \in SelectOrders(products) :
       mreq' = IF mreq.items = <<>>
               THEN [mreq EXCEPT !.snapshot = snapshot, !.pc = "done", !.resp = 200]
               ELSE [mreq EXCEPT !.snapshot = snapshot, !.pc = "item"]
  /\ UNCHANGED <<stockVars, mappings, mapSeq, saveLog, saveResp, call>>

\* a plausible slip: the oracle is asked even on a perfect score
NeedsOracleAlways(scored) == scored # <<>>

\* scored.length > 0 && scored[0].score < 100
NeedsOracle(scored) == scored # <<>> /\ scored[1].score < 100

\* a plausible slip: the catalog is read again for every item
RankedRowsReadAgain(m, table) == ByIdAsc(table)
\* products.map(...): the rows the request read at its start
RankedRows(m, table) == m.snapshot

\* a plausible slip: the calls are started without awaiting them (items.map
\* with an async callback), so the loop goes on while a call is outstanding
CallOracleNoAwait(m, scored, entry) ==
  AfterItem([m EXCEPT
    !.matches = Push(@, AssembleResult(scored, NullAi)),
    !.trace = Append(@, [entry EXCEPT !.candidates = scored, !.called = TRUE])])
\* aiResponse = await findBestMatchWithGemini(description, scored): the call
\* is issued and the handler waits for it
CallOracle(m, scored, entry) ==
  [m EXCEPT !.pc = "oracle", !.scored = scored,
            !.trace = Append(@, [entry EXCEPT !.candidates = scored,
                                              !.called = TRUE])]

\* one pass of the loop up to its next await: the mapping lookup's answer,
\* then the ranking, then either the oracle call or the result
MatchItem ==
  /\ mreq.pc = "item"
  /\ LET description == mreq.items[mreq.idx]
         normalized == normalizeText(description)
         rows == IF normalized # <<>>
                 THEN {p \in products :
                         \E m \in mappings :
                           /\ m.supplier_name_normalized = normalized
                           /\ m.product_id = p.id}
                 ELSE {}
         scored == Rank(RankedRows(mreq, products), description)
         entry == [saves |-> Len(saveLog), candidates |-> <<>>, called |-> FALSE,
                   raw |-> NoRaw,
                   stale |-> Cardinality(products) # Len(mreq.snapshot)]
     IN IF rows # {}
        THEN \E row \in rows :
               mreq' = AfterItem([mreq EXCEPT
                          !.matches = Push(@, MappingResult(row)),
                          !.trace = Append(@, entry)])
        ELSE IF NeedsOracle(scored)
        THEN mreq' = CallOracle(mreq, scored, entry)
        ELSE mreq' = AfterItem([mreq EXCEPT
                        !.matches = Push(@, AssembleResult(scored, NullAi)),
                        !.trace = Append(@, [entry EXCEPT !.candidates = scored])])
  /\ UNCHANGED <<stockVars, mappings, mapSeq, saveLog, saveResp, call>>

\* the oracle call returns: the rest of the pass (the export-csv route that
\* the source registers inside this branch touches none of the state here)
MatchOracle ==
  /\ mreq.pc = "oracle"
  /\ \E raw \in OracleRaws(mreq.snapshot, mreq.scored) :
       LET ai == findBestMatchWithGemini(raw)
           seen == [mreq EXCEPT !.trace[mreq.idx].raw = raw]
       IN mreq' = IF ai.thrown
                  THEN [seen EXCEPT !.pc = "done", !.resp = 500]
                  ELSE AfterItem([seen EXCEPT
                         !.matches = Push(@, AssembleResult(mreq.scored, ai))])
  /\ UNCHANGED <<stockVars, mappings, mapSeq, saveLog, saveResp, call>>

\* a database query of the handler rejects: catch, 500
MatchFail ==
  /\ \/ mreq.pc = "products"
     \/ mreq.pc = "item" /\ normalizeText(mreq.items[mreq.idx]) # <<>>
  /\ mreq' = [mreq EXCEPT !.pc = "done", !.resp = 500]
  /\ UNCHANGED <<stockVars, mappings, mapSeq, saveLog, saveResp, call>>

----------------------------------------------------------------------------
(* The text helpers called on their own *)

\* characters of the texts: a lower-case and an upper-case ASCII letter, a
\* digit, a space, a tab, a punctuation sign, a non-ASCII letter
TextChars == {"a", "B", "1", " ", "\t", "#", "é"}
Texts == SeqsUpTo(TextChars, MaxTextLen)

\* pc: "args" (called), "once" (normalizeText has returned), "twice" (it
\* has returned again, on its own result), "scored" (similarityScore has
\* returned); a, b: the arguments; text, again, score: the values returned
NoCall == [fn |-> "none", pc |-> "none", a |-> <<>>, b |-> <<>>,
           text |-> <<>>, again |-> <<>>, score |-> 0]

HelperCalls ==
  {[NoCall EXCEPT !.fn = "similarityScore", !.pc = "args", !.a = a, !.b = b] :
     a \in Texts, b \in Texts}
  \cup {[NoCall EXCEPT !.fn = "normalizeText", !.pc = "args", !.a = a] : a \in Texts}

\* similarityScore(a, b)
CallSimilarityScore ==
  /\ call.fn = "similarityScore" /\ call.pc = "args"
  /\ call' = [call EXCEPT !.pc = "scored",
                          !.score = similarityScore(call.a, call.b)]
  /\ UNCHANGED <<stockVars, mappings, mapSeq, saveLog, saveResp, mreq>>

\* normalizeText(a)
NormalizeOnce ==
  /\ call.fn = "normalizeText" /\ call.pc = "args"
  /\ call' = [call EXCEPT !.pc = "once", !.text = normalizeText(call.a)]
  /\ UNCHANGED <<stockVars, mappings, mapSeq, saveLog, saveResp, mreq>>

\* normalizeText of the text normalizeText returned
NormalizeTwice ==
  /\ call.fn = "normalizeText" /\ call.pc = "once"
  /\ call' = [call EXCEPT !.pc = "twice", !.again = normalizeText(call.text)]
  /\ UNCHANGED <<stockVars, mappings, mapSeq, saveLog, saveResp, mreq>>

----------------------------------------------------------------------------

InitTables(catalogs) ==
  /\ products \in catalogs
  /\ seed = products
  /\ invoices = {}
  /\ prodSeq = Cardinality(products)
  /\ invSeq = 0
  /\ txn = [r \in StockReqs |-> NoTxn]
  /\ sreq = [r \in StockReqs |-> NoReq]
  /\ mappings = {}
  /\ mapSeq = 0
  /\ saveLog = <<>>
  /\ saveResp = 0
  /\ mreq = NoMatchReq

InitWith(catalogs) == InitTables(catalogs) /\ call = NoCall

InitStock == InitWith(InitCatalogs)
InitMatch == InitWith(MatchCatalogs)

\* a step of the add-stock request r
StockStep(r) ==
  \/ StockBegin(r)
  \/ StockInvoice(r)
  \/ StockSelect(r)
  \/ StockUpdate(r)
  \/ StockInsert(r)
  \/ StockCommit(r)
  \/ StockFail(r)
  \/ StockRollback(r)

NextStock == \E r \in StockReqs : StockStep(r)

NextMatch ==
  \/ SaveMapping
  \/ MatchBegin
  \/ MatchProducts
  \/ MatchItem
  \/ MatchOracle
  \/ MatchFail

\* the reconciliation requests on their own
SpecStock == InitStock /\ [][NextStock]_vars

\* the mapping store and the matcher over a fixed catalog
SpecMatch == InitMatch /\ [][NextMatch]_vars

\* a match-products request while one add-stock request runs
NextMatchDuringStock ==
  \/ StockStep(1)
  \/ MatchBegin
  \/ MatchProducts
  \/ MatchItem
  \/ MatchOracle
  \/ MatchFail

SpecMatchDuringStock == InitStock /\ [][NextMatchDuringStock]_vars

NextHelpers ==
  \/ CallSimilarityScore
  \/ NormalizeOnce
  \/ NormalizeTwice

InitHelpers == InitTables({{}}) /\ call \in HelperCalls

\* the text helpers on every text of the bound
SpecHelpers == InitHelpers /\ [][NextHelpers]_vars

\* the whole server: every route over every starting catalog
Init == InitMatch
Next == NextStock \/ NextMatch
Spec == Init /\ [][Next]_vars

----------------------------------------------------------------------------
(* Properties of POST /api/add-stock *)

RECURSIVE QtyFor(_, _)
\* total quantity the items of a payload carry for description d
QtyFor(items, d) ==
  IF items = <<>> THEN 0
  ELSE (IF Head(items).description = d THEN ParseQty(Head(items).quantity) ELSE 0)
       + QtyFor(Tail(items), d)

RECURSIVE QtyForReqs(_, _)
QtyForReqs(n, d) ==
  IF n = 0 THEN 0 ELSE QtyFor(sreq[n].items, d) + QtyForReqs(n - 1, d)

Mentions(items, d) == \E i \in DOMAIN items : items[i].description = d

DistinctDescriptions(rows) ==
  \A p, q \in rows : p.description = q.description => p = q

C2_NoLostIncrement ==
  (\A r \in StockReqs : sreq[r].pc = "done_ok") =>
    \A p0 \in seed :
      (\A r \in StockReqs : Mentions(sreq[r].items, p0.description)) =>
        \A p \in products :
          p.id = p0.id =>
            p.quantity = p0.quantity + QtyForReqs(MaxStockReqs, p0.description)

\* stock per description of a table whose descriptions are pairwise distinct
StockOf(rows) ==
  [d \in {p.description : p \in rows} |->
     (CHOOSE p \in rows : p.description = d).quantity]

RECURSIVE Reconcile(_, _)
\* additive upsert of the items, in order, into a stock per description
Reconcile(stock, items) ==
  IF items = <<>> THEN stock
  ELSE LET d == Head(items).description
           q == ParseQty(Head(items).quantity)
       IN Reconcile([x \in DOMAIN stock \cup {d} |->
                       IF x # d THEN stock[x]
                       ELSE IF d \in DOMAIN stock THEN stock[d] + q ELSE q],
                    Tail(items))

\* r1 and then, after r1 had ended, r2 committed the same one-item payload
\* against an empty catalog, and no other request has committed
TwiceInSequence(r1, r2) ==
  /\ seed = {}
  /\ r1 # r2 /\ r1 \in sreq[r2].pred
  /\ sreq[r1].pc = "done_ok" /\ sreq[r2].pc = "done_ok"
  /\ Len(sreq[r1].items) = 1
  /\ sreq[r2].items = sreq[r1].items /\ sreq[r2].info = sreq[r1].info
  /\ \A o \in StockReqs \ {r1, r2} : sreq[o].pc # "done_ok"

OneProductWithTwice(item) ==
  /\ Cardinality(products) = 1
  /\ \A p \in products :
       /\ p.description = item.description
       /\ p.quantity = 2 * ParseQty(item.quantity)

\* C3 as stated: the same one-item payload (quantity q) submitted twice in
\* sequence against an empty catalog leaves exactly one Product with quantity
\* 2q and two Invoice rows.
C3_TwiceLeavesTwoInvoices ==
  \A r1, r2 \in StockReqs :
    TwiceInSequence(r1, r2) =>
      /\ OneProductWithTwice(sreq[r1].items[1])
      /\ Cardinality(invoices) = 2

\* C3 amended: a committed add-stock adds each item's quantity to the Product
\* with that description, or inserts one new Product with the item's
\* quantity, and adds one Invoice row if and only if the payload carries
\* invoiceInfo; so the same one-item payload (quantity q) submitted twice in
\* sequence against an empty catalog leaves exactly one Product with quantity
\* 2q, and two Invoice rows when the payload carries invoiceInfo, none when
\* it does not.
C3_AdditiveUpsert ==
  /\ \A r \in StockReqs :
       (/\ sreq[r].pc = "done_ok" /\ ~sreq[r].dirty
        /\ DistinctDescriptions(sreq[r].before.products)) =>
         /\ DistinctDescriptions(products)
         /\ StockOf(products) =
              Reconcile(StockOf(sreq[r].before.products), sreq[r].items)
         /\ Cardinality(invoices) =
              Cardinality(sreq[r].before.invoices)
                + (IF sreq[r].info.present THEN 1 ELSE 0)
  /\ \A r1, r2 \in StockReqs :
       TwiceInSequence(r1, r2) =>
         /\ OneProductWithTwice(sreq[r1].items[1])
         /\ Cardinality(invoices) = IF sreq[r1].info.present THEN 2 ELSE 0

\* C3 happens: the same one-item payload with invoiceInfo was committed twice
\* in sequence against an empty catalog.
C3_Witness ==
  \E r1, r2 \in StockReqs :
    /\ TwiceInSequence(r1, r2)
    /\ sreq[r1].info.present
    /\ OneProductWithTwice(sreq[r1].items[1])
    /\ Cardinality(invoices) = 2

----------------------------------------------------------------------------
(* Properties of POST /api/save-mapping and POST /api/match-products *)

RECURSIVE LastSavedPid(_, _)
\* product of the latest of the first k successful saves whose label
\* normalizes to n (0: none)
LastSavedPid(n, k) ==
  IF k = 0 THEN 0
  ELSE IF normalizeText(saveLog[k].name) = n THEN saveLog[k].pid
  ELSE LastSavedPid(n, k - 1)

\* similarityScore of every item description against every catalog entry of
\* the model, evaluated once
ScoreTable ==
  [d \in MatchDescs, c \in {Candidate(p) : p \in UNION MatchCatalogs} |->
     similarityScore(d, c)]

\* the result pushed for item i, the item's text and its history
Handled == DOMAIN mreq.matches
ItemText(i) == mreq.items[i]
SavedFor(i) == LastSavedPid(normalizeText(ItemText(i)), mreq.trace[i].saves)

\* the catalog snapshot, and the score of each of its entries against item i
Snapshot == {mreq.snapshot[k] : k \in DOMAIN mreq.snapshot}
ItemScores(i) == [p \in Snapshot |-> ScoreTable[ItemText(i), Candidate(p)]]
AllScoresBelow(i, bound) ==
  LET sc == ItemScores(i) IN \A p \in Snapshot : sc[p] < bound

OracleFailed(raw) == raw.kind = "reject" \/ (raw.kind = "text" /\ ~raw.parses)

\* C4: after a successful save-mapping of (label, pid), the result for an
\* item whose description normalizes to the same text as the label is
\* mapping-sourced with product pid (the pid of the latest such save), for
\* every label save-mapping accepts.
C4_SavedLabelIsFound ==
  \A i \in Handled :
    SavedFor(i) # 0 =>
      /\ mreq.matches[i].source = "mapping"
      /\ mreq.matches[i].match.id = SavedFor(i)

\* C5: the mapping table holds at most one row per normalized supplier label.
C5_OneRowPerLabel ==
  \A m1, m2 \in mappings :
    m1.supplier_name_normalized = m2.supplier_name_normalized => m1 = m2

\* C5 happens: a label was saved twice, with two products, and the table
\* holds its one row with the second product.
C5_Witness ==
  /\ Len(saveLog) = 2
  /\ normalizeText(saveLog[1].name) = normalizeText(saveLog[2].name)
  /\ saveLog[1].pid # saveLog[2].pid
  /\ \E m \in mappings : mappings = {m} /\ m.product_id = saveLog[2].pid

\* C6: when the oracle call of an unmapped item fails (it rejects, or its
\* text does not parse as JSON), the item still gets a result, which is not
\* oracle-sourced and whose match is a catalog entry of highest score; when
\* the item is the last one the response is a success.
C6_OracleFailureFallsBack ==
  \A i \in DOMAIN mreq.trace :
    OracleFailed(mreq.trace[i].raw) =>
      /\ i \in Handled
      /\ mreq.matches[i].source = "suggestion"
      /\ LET sc == ItemScores(i)
         IN \E p \in Snapshot :
              /\ mreq.matches[i].match = AsMatch(p)
              /\ \A q \in Snapshot : sc[q] <= sc[p]
      /\ i = Len(mreq.items) => mreq.resp = 200

\* C6 happens: the oracle call of the last item failed and the request was
\* answered.
C6_Witness ==
  /\ mreq.pc = "done" /\ mreq.resp = 200 /\ mreq.items # <<>>
  /\ Len(mreq.trace) = Len(mreq.items)
  /\ OracleFailed(mreq.trace[Len(mreq.items)].raw)

\* C7: a result is oracle-sourced only if the oracle returned the id of one
\* of the item's candidates.
C7_OracleSourceNeedsCandidate ==
  \A i \in Handled :
    mreq.matches[i].source = "ai-gemini" =>
      \E k \in DOMAIN mreq.trace[i].candidates :
        mreq.trace[i].candidates[k].id = mreq.trace[i].raw.value.best_match_id

\* sugg is the n best-scoring entries of the snapshot for item i, best first
IsTopOfSnapshot(sugg, i, n) ==
  LET sc == ItemScores(i) IN
  /\ Len(sugg) = Min2(n, Len(mreq.snapshot))
  /\ \A k \in DOMAIN sugg :
       \E p \in Snapshot :
         /\ sugg[k].id = p.id /\ sugg[k].description = p.description
         /\ sugg[k].score = sc[p]
  /\ \A k, l \in DOMAIN sugg :
       k < l => sugg[k].id # sugg[l].id /\ sugg[k].score >= sugg[l].score
  /\ \A p \in Snapshot :
       (\A k \in DOMAIN sugg : sugg[k].id # p.id) =>
         \A k \in DOMAIN sugg : sc[p] <= sugg[k].score

\* C8 as stated: every result, whichever source won, carries the top-3
\* ranked catalog candidates of its item as suggestions.
C8_EveryResultHasTop3 ==
  \A i \in Handled : IsTopOfSnapshot(mreq.matches[i].suggestions, i, 3)

\* C8 amended: every result that is not mapping-sourced carries the top-3
\* ranked catalog candidates of its item as suggestions (min(3, catalog
\* size) entries); a mapping-sourced result carries no suggestions.
C8_SuggestionsUnlessMapped ==
  \A i \in Handled :
    IF mreq.matches[i].source = "mapping"
    THEN mreq.matches[i].suggestions = <<>>
    ELSE IsTopOfSnapshot(mreq.matches[i].suggestions, i, 3)

\* C8 happens: over a catalog of more than three entries, one item was
\* answered from a mapping and another one from the ranking.
C8_Witness ==
  /\ Len(mreq.snapshot) > 3
  /\ \E i, j \in Handled :
       /\ mreq.matches[i].source = "mapping"
       /\ mreq.matches[j].source # "mapping"
       /\ Len(mreq.matches[j].suggestions) = 3

\* C9: the oracle is called for an item exactly when the item had no mapping
\* hit, the catalog snapshot is not empty and every entry scores below 100.
C9_OracleCalledOnlyWhenNeeded ==
  \A i \in DOMAIN mreq.trace :
    mreq.trace[i].called <=>
      /\ normalizeText(ItemText(i)) = <<>> \/ SavedFor(i) = 0
      /\ mreq.snapshot # <<>>
      /\ AllScoresBelow(i, 100)

\* C9 happens: one request held an item that needed the oracle and an item
\* with a perfect score that did not.
C9_Witness ==
  \E i, j \in DOMAIN mreq.trace :
    /\ mreq.trace[i].called
    /\ ~mreq.trace[j].called /\ SavedFor(j) = 0
    /\ ~AllScoresBelow(j, 100)

\* C10: an unmapped item gets no resolved product when the catalog is empty
\* or every catalog entry scores 0 against it.
C10_ZeroScoresStayUnresolved ==
  \A i \in Handled :
    (mreq.matches[i].source # "mapping" /\ AllScoresBelow(i, 1)) =>
      mreq.matches[i].match = NoProduct

\* the result at position i is the one the handler computes for item i: a
\* mapping result carries the product saved for the item's normalized text,
\* any other result carries the item's own top-3 ranking and a match taken
\* from the catalog snapshot
IsResultOf(res, i) ==
  IF res.source = "mapping"
  THEN /\ normalizeText(ItemText(i)) # <<>>
       /\ SavedFor(i) # 0 /\ res.match.id = SavedFor(i)
  ELSE /\ IsTopOfSnapshot(res.suggestions, i, 3)
       /\ IF Snapshot = {} THEN res.match = NoProduct
          ELSE \E p \in Snapshot : res.match = AsMatch(p)

\* C11: matches holds one result per item handled so far, in the items'
\* order: the i-th result is the result for the i-th item, and a successful
\* response holds exactly one result per input item.
C11_ResultsFollowItems ==
  /\ Len(mreq.matches) <= Len(mreq.items)
  /\ (mreq.pc = "done" /\ mreq.resp = 200) => Len(mreq.matches) = Len(mreq.items)
  /\ \A i \in Handled : IsResultOf(mreq.matches[i], i)

\* C11 happens: a successful response to two different items, the first
\* answered from a mapping and the second confirmed by the oracle.
C11_Witness ==
  /\ mreq.pc = "done" /\ mreq.resp = 200
  /\ Len(mreq.items) = 2 /\ mreq.items[1] # mreq.items[2]
  /\ mreq.matches[1].source = "mapping"
  /\ mreq.matches[2].source = "ai-gemini"
  /\ mreq.matches[1].match # mreq.matches[2].match

\* the steps the handler takes without the oracle's answer: the database
\* answers a query, or a timer of the handler fires (the code arms none)
StepWithoutOracle == MatchProducts \/ MatchItem \/ MatchFail

\* C12: a match-products request never depends on the oracle's answer to
\* finish: while the handler waits on an oracle call, a step that abandons
\* the call (a bounded timeout) is pending, so the request is answered even
\* if the oracle never answers.
C12_OracleWaitIsBounded == mreq.pc = "oracle" => ENABLED StepWithoutOracle

\* C13: the score of every result lies in 0..100, whatever confidence the
\* oracle's answer carries.
C13_ScoreInRange ==
  \A i \in Handled : mreq.matches[i].score \in 0..100

\* every row of the table has all its fields, the key being the normalized
\* text of the stored label
WholeRows(table) ==
  \A m \in table :
    /\ m.supplier_name # <<>>
    /\ m.supplier_name_normalized = normalizeText(m.supplier_name)
    /\ m.product_id # 0

\* C14: a save-mapping request without supplier_name or without product_id
\* is answered with 400 and leaves the mapping table as it was; a request
\* that fails otherwise (500) leaves the table as it was too; the table never
\* holds a partially written row.
C14_RejectedSaveWritesNothing ==
  [][\A name \in SaveLabels, pid \in SavePids :
       SaveRequest(name, pid) =>
         /\ (name = <<>> \/ pid = 0) => saveResp' = 400
         /\ saveResp' # 200 => mappings' = mappings
         /\ WholeRows(mappings')]_vars

\* C14 happens: a request without a required field was answered with 400
\* while the table held a saved row.
C14_Witness ==
  /\ saveResp = 400
  /\ Len(saveLog) = 1 /\ Cardinality(mappings) = 1

\* the label-to-product associations a table holds
Associations(table) ==
  {<<m.supplier_name_normalized, m.product_id>> : m \in table}

\* the step is a successful save of (name, pid) right after a successful save
\* of the same (name, pid)
RepeatedSave(name, pid) ==
  /\ SaveRequest(name, pid)
  /\ saveLog # <<>> /\ saveLog[Len(saveLog)] = [name |-> name, pid |-> pid]
  /\ saveLog' = Append(saveLog, [name |-> name, pid |-> pid])

\* C15: a successful save-mapping that repeats the previous successful one
\* (same label, same product id) leaves the mapping table with the same rows
\* count and the same label-to-product associations as the first one did.
C15_RepeatedSaveIsIdempotent ==
  [][\A name \in SaveLabels, pid \in SavePids :
       RepeatedSave(name, pid) =>
         /\ Associations(mappings') = Associations(mappings)
         /\ Cardinality(mappings') = Cardinality(mappings)]_vars

\* C15 happens: the same label and product id were saved twice in a row and
\* the table holds the one association.
C15_Witness ==
  /\ Len(saveLog) = 2 /\ saveLog[1] = saveLog[2]
  /\ Associations(mappings) =
       {<<normalizeText(saveLog[1].name), saveLog[1].pid>>}
  /\ Cardinality(mappings) = 1

----------------------------------------------------------------------------
(* Further properties of POST /api/add-stock *)

\* request r committed and no other request has committed since it began
CommittedAlone(r) == sreq[r].pc = "done_ok" /\ ~sreq[r].dirty

\* the Invoice rows added since request r began
AddedInvoices(r) == invoices \ sreq[r].before.invoices

\* row holds the fields of the metadata info: number and date as supplied,
\* the supplier (under supplier_name, else under buyer_name), the total as a
\* number, 0 when it does not parse
FromMetadata(row, info) ==
  /\ row.invoice_number = info.invoice_number
  /\ row.supplier_name =
       IF info.supplier_name # "" THEN info.supplier_name ELSE info.buyer_name
  /\ row.total_amount = IF info.total_ttc.isnum THEN info.total_ttc.num ELSE 0
  /\ row.invoice_date = info.invoice_date

\* C16 as stated: every committed add-stock request adds exactly one Invoice
\* row, whose fields come from the supplied metadata.
C16_EveryCommitAddsOneInvoice ==
  \A r \in StockReqs :
    CommittedAlone(r) =>
      /\ sreq[r].before.invoices \subseteq invoices
      /\ \E row \in AddedInvoices(r) :
           AddedInvoices(r) = {row} /\ FromMetadata(row, sreq[r].info)

\* C16 amended: a committed add-stock request whose payload carries
\* invoiceInfo adds exactly one Invoice row, whose fields come from that
\* metadata; a committed request without invoiceInfo adds no Invoice row. No
\* request changes or removes an Invoice row.
C16_OneInvoicePerMetadata ==
  \A r \in StockReqs :
    CommittedAlone(r) =>
      /\ sreq[r].before.invoices \subseteq invoices
      /\ IF sreq[r].info.present
         THEN \E row \in AddedInvoices(r) :
                AddedInvoices(r) = {row} /\ FromMetadata(row, sreq[r].info)
         ELSE AddedInvoices(r) = {}

\* C16 happens: after a first invoice was stored, a request with metadata
\* (its supplier under buyer_name) committed and added its Invoice row.
C16_Witness ==
  \E r \in StockReqs :
    /\ CommittedAlone(r) /\ sreq[r].info.present
    /\ sreq[r].info.supplier_name = ""
    /\ sreq[r].before.invoices # {}
    /\ Cardinality(AddedInvoices(r)) = 1

\* the entries of a statement log that are not the invoice insert
RECURSIVE ItemStatements(_)
ItemStatements(log) ==
  IF log = <<>> THEN <<>>
  ELSE IF Head(log).stmt = "invoice" THEN ItemStatements(Tail(log))
  ELSE <<Head(log)>> \o ItemStatements(Tail(log))

\* C17: within one add-stock transaction the invoice insert, when the
\* payload carries metadata, is the first statement after BEGIN and is issued
\* once, before any product lookup, update or insert; the items are then
\* handled in the order of the payload, each by a lookup on its description
\* followed by an update or an insert.
C17_InvoiceFirstItemsInOrder ==
  \A r \in StockReqs :
    LET log == sreq[r].log
        stmts == ItemStatements(log)
    IN /\ (sreq[r].info.present /\ log # <<>>) => log[1].stmt = "invoice"
       /\ \A k \in DOMAIN log : log[k].stmt = "invoice" => k = 1
       /\ sreq[r].pc = "done_ok" => Len(stmts) = 2 * Len(sreq[r].items)
       /\ \A k \in DOMAIN stmts :
            LET i == (k + 1) \div 2
            IN /\ i \in DOMAIN sreq[r].items
               /\ stmts[k].item = i
               /\ stmts[k].description = sreq[r].items[i].description
               /\ stmts[k].stmt \in
                    IF k % 2 = 1 THEN {"select"} ELSE {"update", "insert"}

\* C17 happens: a request with metadata and two items of different
\* descriptions committed after its five statements.
C17_Witness ==
  \E r \in StockReqs :
    /\ sreq[r].pc = "done_ok" /\ sreq[r].info.present
    /\ Len(sreq[r].items) = 2
    /\ sreq[r].items[1].description # sreq[r].items[2].description
    /\ Len(sreq[r].log) = 5

\* C18: an add-stock whose invoice total does not parse as a number is not
\* held up by it: when it commits, its Invoice row is stored with total 0
\* and its items are applied as the additive upsert of any payload.
C18_BadTotalStoredAsZero ==
  \A r \in StockReqs :
    (/\ CommittedAlone(r)
     /\ sreq[r].info.present /\ ~sreq[r].info.total_ttc.isnum) =>
      /\ \E row \in AddedInvoices(r) :
           AddedInvoices(r) = {row} /\ row.total_amount = 0
      /\ DistinctDescriptions(sreq[r].before.products) =>
           StockOf(products) =
             Reconcile(StockOf(sreq[r].before.products), sreq[r].items)

\* C18 happens: a request whose total does not parse committed an item onto
\* an existing product.
C18_Witness ==
  \E r \in StockReqs :
    /\ CommittedAlone(r)
    /\ sreq[r].info.present /\ ~sreq[r].info.total_ttc.isnum
    /\ \E row \in AddedInvoices(r) : row.total_amount = 0
    /\ \E p \in products, q \in sreq[r].before.products :
         p.id = q.id /\ p.quantity > q.quantity

----------------------------------------------------------------------------
(* Properties of the text helpers *)

\* the text holds a character whose lower case is in [a-z0-9]
HasAlphaNum(t) == \E i \in DOMAIN t : ToLower(t[i]) \in AlphaNum

\* C19 as stated: similarityScore(a, b) is an integer in 0..100, and
\* similarityScore(a, a) = 100 for every non-empty text a.
C19_SelfScoreAlways100 ==
  call.pc = "scored" =>
    /\ call.score \in 0..100
    /\ (call.a = call.b /\ call.a # <<>>) => call.score = 100

\* C19 amended: similarityScore(a, b) is an integer in 0..100, and
\* similarityScore(a, a) is 100 for every text a whose normalized text is
\* not empty (a holds a character whose lower case is in [a-z0-9]), and 0
\* for every other text (empty, or made only of punctuation, white space
\* and letters outside a-z).
C19_SelfScore100IfAlphaNum ==
  call.pc = "scored" =>
    /\ call.score \in 0..100
    /\ call.a = call.b =>
         call.score = IF HasAlphaNum(call.a) THEN 100 ELSE 0

\* C19 happens: a text with a digit, an upper-case letter and a punctuation
\* sign was scored against itself.
C19_Witness ==
  /\ call.pc = "scored" /\ call.a = call.b
  /\ call.a = <<"1", "#", "B">> /\ call.score = 100

\* the text is what normalizeText leaves: ASCII lower-case letters, digits
\* and single spaces, none of them leading or trailing
IsNormalized(t) ==
  /\ \A i \in DOMAIN t : t[i] \in AlphaNum \cup {" "}
  /\ t # <<>> => t[1] # " " /\ t[Len(t)] # " "
  /\ \A i \in DOMAIN t : i < Len(t) => ~(t[i] = " " /\ t[i + 1] = " ")

\* C20: normalizeText(normalizeText(s)) = normalizeText(s), and
\* normalizeText(s) is lower-case, without a leading or trailing space and
\* without two consecutive spaces.
C20_NormalizeIdempotent ==
  /\ call.pc \in {"once", "twice"} => IsNormalized(call.text)
  /\ call.pc = "twice" => call.again = call.text

\* C20 happens: a text with an upper-case letter between a tab and a
\* punctuation sign was normalized twice.
C20_Witness ==
  /\ call.pc = "twice"
  /\ call.a = <<"\t", "B", "#">> /\ call.again = <<"b">>

----------------------------------------------------------------------------
(* Further properties of POST /api/match-products *)

\* C21: an item whose description normalizes to a label that has a stored
\* mapping (saved before the item's lookup) gets a result with source
\* "mapping", score 100 and the mapped product as match; the ranking is not
\* consulted for it and the oracle is not called.
C21_MappedItemGetsMapping ==
  \A i \in Handled :
    SavedFor(i) # 0 =>
      /\ mreq.matches[i].source = "mapping"
      /\ mreq.matches[i].score = 100
      /\ \E p \in products :
           p.id = SavedFor(i) /\ mreq.matches[i].match = AsMatch(p)
      /\ ~mreq.trace[i].called /\ mreq.trace[i].candidates = <<>>

\* the oracle's answer for item i parsed to an object naming one of the
\* item's candidates
OracleNamedCandidate(i) ==
  LET t == mreq.trace[i]
  IN /\ t.raw.kind = "text" /\ t.raw.parses /\ ~t.raw.value.isNull
     /\ \E k \in DOMAIN t.candidates :
          t.candidates[k].id = t.raw.value.best_match_id

\* C22: when the oracle returns the id of one of the item's candidates, the
\* result's score is the confidence the oracle returned, for every
\* confidence in 0..100, 0 included.
C22_OracleConfidenceIsScore ==
  \A i \in Handled :
    (OracleNamedCandidate(i) /\ mreq.trace[i].raw.value.confidence \in 0..100) =>
      mreq.matches[i].score = mreq.trace[i].raw.value.confidence

\* an oracle call that was issued for item i and has not returned or failed
Outstanding(i) == mreq.trace[i].called /\ mreq.trace[i].raw.kind = "none"

\* C23: within one match-products request at most one oracle call is
\* outstanding at any time, and the call for a later item is issued only
\* after the call for every earlier item has returned or failed.
C23_OneOracleCallAtATime ==
  /\ Cardinality({i \in DOMAIN mreq.trace : Outstanding(i)}) <= 1
  /\ \A i, j \in DOMAIN mreq.trace :
       (i < j /\ mreq.trace[j].called) => ~Outstanding(i)
C23_Witness ==
  /\ Len(mreq.trace) = 2
  /\ mreq.trace[1].called /\ ~Outstanding(1)
  /\ Outstanding(2)

\* the position in the snapshot of the product with the given id
PositionOf(id) == CHOOSE k \in DOMAIN mreq.snapshot : mreq.snapshot[k].id = id

\* C24: for every unmapped item the candidate list has min(5, catalog size)
\* entries taken from the snapshot with their scores, in descending score
\* order; no omitted product scores strictly higher than an included one;
\* products of equal score are ordered, and cut at the fifth place, by their
\* position in the snapshot.
C24_TopFiveStableOrder ==
  \A i \in DOMAIN mreq.trace :
    LET cand == mreq.trace[i].candidates
        sc == ItemScores(i)
        mapped == i \in Handled /\ mreq.matches[i].source = "mapping"
    IN ~mapped =>
         /\ Len(cand) = Min2(TopCandidates, Len(mreq.snapshot))
         /\ \A k \in DOMAIN cand :
              \E p \in Snapshot :
                /\ cand[k].id = p.id /\ cand[k].score = sc[p]
                /\ cand[k].reference = p.reference
                /\ cand[k].description = p.description
                /\ cand[k].category = p.category
         /\ \A k, l \in DOMAIN cand :
              k < l => \/ cand[k].score > cand[l].score
                       \/ /\ cand[k].score = cand[l].score
                          /\ PositionOf(cand[k].id) < PositionOf(cand[l].id)
         /\ \A p \in Snapshot :
              (\A k \in DOMAIN cand : cand[k].id # p.id) =>
                \A k \in DOMAIN cand :
                  \/ sc[p] < cand[k].score
                  \/ sc[p] = cand[k].score /\ PositionOf(cand[k].id) < PositionOf(p.id)
\* a snapshot of more than five products, read in descending id order, in
\* which a tie in score is cut at the fifth place
C24_Witness ==
  \E i \in DOMAIN mreq.trace :
    LET cand == mreq.trace[i].candidates
        sc == ItemScores(i)
    IN /\ Len(mreq.snapshot) > TopCandidates
       /\ mreq.snapshot[1].id > mreq.snapshot[2].id
       /\ Len(cand) = TopCandidates
       /\ \E p \in Snapshot :
            /\ \A k \in DOMAIN cand : cand[k].id # p.id
            /\ sc[p] = cand[TopCandidates].score

\* C28: the match of every non-mapping result that has one is one of the
\* item's own candidates (at most five, each a product of the snapshot); a
\* product id the oracle made up is never returned as the match.
C28_MatchIsACandidate ==
  \A i \in Handled :
    LET res == mreq.matches[i]
        cand == mreq.trace[i].candidates
    IN (res.source # "mapping" /\ res.match # NoProduct) =>
         /\ Len(cand) <= TopCandidates
         /\ \E k \in DOMAIN cand : res.match = AsMatch(cand[k])
         /\ \E p \in Snapshot : res.match = AsMatch(p)
\* the oracle named a product id that is not among the candidates
C28_Witness ==
  \E i \in Handled :
    LET t == mreq.trace[i]
    IN /\ t.raw.kind = "text" /\ t.raw.parses /\ ~t.raw.value.isNull
       /\ t.raw.value.best_match_id # 0
       /\ \A k \in DOMAIN t.candidates : t.candidates[k].id # t.raw.value.best_match_id
       /\ mreq.matches[i].match = AsMatch(t.candidates[1])

----------------------------------------------------------------------------
(* Further properties of POST /api/add-stock *)

\* C25: the quantity of every product row is an integer >= 0 in every
\* reachable state, whatever quantities the items of the requests carry.
C25_QuantityNeverNegative ==
  \A p \in products : p.quantity \in Nat

\* C26: when the catalog started without two rows of one description, no two
\* product rows ever have the same description, also when one request names
\* a new description twice and when two requests name the same new one.
C26_DescriptionsStayDistinct ==
  DistinctDescriptions(seed) => DistinctDescriptions(products)

\* the row is as row0 in every column the reconciliation must not touch
SameButQuantity(row, row0) ==
  /\ row.id = row0.id /\ row.description = row0.description
  /\ row.reference = row0.reference /\ row.unit_price = row0.unit_price
  /\ row.unit = row0.unit /\ row.category = row0.category

\* C27: a committed add-stock request changes one product row per item and
\* nothing else. Every row that existed before is still there with only its
\* quantity changed, by the quantities of the items that name its
\* description (reference, unit price, unit and category stay also when an
\* item supplies other values); rows not named by an item are unchanged;
\* the rows added are one per new description named, holding the quantities
\* of its items. (Compared while no other request has committed since the
\* request began, on a catalog of distinct descriptions.)
C27_ItemChangesOneRow ==
  \A r \in StockReqs :
    (CommittedAlone(r) /\ DistinctDescriptions(sreq[r].before.products)) =>
      LET old == sreq[r].before.products
          items == sreq[r].items
          added == {p \in products : \A q \in old : q.id # p.id}
      IN /\ \A q \in old :
              \E p \in products :
                /\ SameButQuantity(p, q)
                /\ p.quantity = q.quantity + QtyFor(items, q.description)
         /\ \A p \in added :
              /\ Mentions(items, p.description)
              /\ \A q \in old : q.description # p.description
              /\ \A p2 \in added : p2.description = p.description => p2 = p
              /\ p.quantity = QtyFor(items, p.description)
              /\ p.category = "General"
         /\ Cardinality(products) <= Cardinality(old) + Len(items)
\* an item named an existing product with another reference, price and unit
C27_Witness ==
  \E r \in StockReqs :
    /\ CommittedAlone(r)
    /\ \E q \in sreq[r].before.products, i \in DOMAIN sreq[r].items :
         /\ sreq[r].items[i].description = q.description
         /\ sreq[r].items[i].reference # q.reference
         /\ ParsePrice(sreq[r].items[i].unit_price) # q.unit_price
         /\ sreq[r].items[i].unit # q.unit
         /\ \E p \in products : SameButQuantity(p, q) /\ p.quantity # q.quantity
    /\ Cardinality(products) > 1

\* request r has begun its transaction
Began(r) == sreq[r].pc # "idle"

C29_RankedAgainstOneSnapshot ==
  /\ \A i \in DOMAIN mreq.trace :
       (i \in Handled => mreq.matches[i].source # "mapping") =>
         IsTopOfSnapshot(mreq.trace[i].candidates, i, TopCandidates)
  /\ \A i \in Handled :
       mreq.matches[i].source # "mapping" =>
         IsTopOfSnapshot(mreq.matches[i].suggestions, i, TopSuggestions)
\* the second item was ranked after an add-stock request had committed a new
\* product, the first one before
C29_Witness ==
  /\ Len(mreq.matches) = 2
  /\ ~mreq.trace[1].stale /\ mreq.trace[2].stale
  /\ Len(mreq.snapshot) < Cardinality(products)
  /\ Len(mreq.matches[2].suggestions) = Len(mreq.snapshot)
  /\ mreq.snapshot # <<>>

====
